---- MODULE Spec2Model ----
(***************************************************************************)
(* VidText (app.py): the text-analysis helpers clean_tokens,               *)
(* keyword_top_n, split_sentences, score_sentences and                     *)
(* extract_summary_bullets, and the transcript picker pick_and_fetch.      *)
(*                                                                         *)
(* A string is a sequence of one-character strings.  The pure helpers are  *)
(* operators computed the way the Python code computes them; each has an   *)
(* action that applies it to an input drawn in Init.  pick_and_fetch is a  *)
(* process whose position is pc and whose external calls succeed or raise  *)
(* as the environment (drawn in Init) says.                                *)
(***************************************************************************)
EXTENDS Integers, Sequences, FiniteSets, TLC

VARIABLES
    text,        \* the text argument of the helper under call
    sentences,   \* the sentences argument of score_sentences
    call,        \* the call made: [fn |-> "none"] before it, else fn and arguments
    ret,         \* the value the call returned
    locals,      \* extract_summary_bullets: its locals sents and ranked at return
    env,         \* pick_and_fetch: what each call of the transcript API does
    pc,          \* pick_and_fetch: position in the function
    it,          \* pick_and_fetch: index of the for loop over tlist
    outcome      \* pick_and_fetch: [kind |-> "return", source, picked] or "raise"

vars == <<text, sentences, call, ret, locals, env, pc, it, outcome>>

(***************************************************************************)
(* Bounds of the model.                                                    *)
(***************************************************************************)
MaxChars == 5          \* longest text drawn character by character
MaxPieces == 3         \* most pieces a text / sentence list is assembled from
MaxN == 2              \* largest n given to keyword_top_n
MaxK == 2              \* largest k given to extract_summary_bullets
MaxLenParam == 3       \* largest small min_len / max_len given
MaxTranscripts == 2    \* longest transcript list

(***************************************************************************)
(* Program constants.                                                      *)
(***************************************************************************)
SigLen == 40           \* s[:40]
DefaultMinLen == 40    \* min_len=40
DefaultMaxLen == 220   \* max_len=220

(***************************************************************************)
(* Characters.                                                             *)
(***************************************************************************)
LowerOf == [A |-> "a", B |-> "b", C |-> "c", D |-> "d", E |-> "e", F |-> "f",
            G |-> "g", H |-> "h", I |-> "i", J |-> "j", K |-> "k", L |-> "l",
            M |-> "m", N |-> "n", O |-> "o", P |-> "p", Q |-> "q", R |-> "r",
            S |-> "s", T |-> "t", U |-> "u", V |-> "v", W |-> "w", X |-> "x",
            Y |-> "y", Z |-> "z"]

UpperCase == DOMAIN LowerOf

LowerCase == {LowerOf[c] : c \in UpperCase}

Digits == {"0", "1", "2", "3", "4", "5", "6", "7", "8", "9"}

\* the characters \s matches and str.split() / str.strip() treat as whitespace
Whitespace == {" ", "\t", "\n", "\r"}

Apostrophe == "'"

\* the characters of the look-behind class [\.\!\?]
Terminators == {".", "!", "?"}

\* str.lower() on one character
Lower(c) == IF c \in UpperCase THEN LowerOf[c] ELSE c

\* str.lower()
LowerStr(s) == [j \in 1..Len(s) |-> Lower(s[j])]

\* the complement of the class [^A-Za-z0-9\s']
KeptChars == UpperCase \cup LowerCase \cup Digits \cup Whitespace \cup {Apostrophe}

STOPWORDS == {
    <<"a">>, <<"a","b","o","u","t">>, <<"a","b","o","v","e">>, <<"a","f","t","e","r">>,
    <<"a","g","a","i","n">>, <<"a","g","a","i","n","s","t">>, <<"a","l","l">>,
    <<"a","l","s","o">>, <<"a","m">>, <<"a","m","o","n","g">>, <<"a","n">>, <<"a","n","d">>,
    <<"a","r","e">>, <<"a","r","o","u","n","d">>, <<"a","s">>, <<"a","t">>, <<"b","e">>,
    <<"b","e","c","a","u","s","e">>, <<"b","e","e","n">>, <<"b","e","f","o","r","e">>,
    <<"b","e","i","n","g">>, <<"b","e","l","o","w">>, <<"b","e","t","w","e","e","n">>,
    <<"b","o","t","h">>, <<"b","u","t">>, <<"b","y">>, <<"c","a","n">>,
    <<"c","a","n","n","o","t">>, <<"c","o","u","l","d">>, <<"d","i","d">>, <<"d","o">>,
    <<"d","o","e","s">>, <<"d","o","i","n","g">>, <<"d","o","w","n">>,
    <<"d","u","r","i","n","g">>, <<"e","a","c","h">>, <<"f","e","w">>, <<"f","o","r">>,
    <<"f","r","o","m">>, <<"f","u","r","t","h","e","r">>, <<"h","a","d">>, <<"h","a","s">>,
    <<"h","a","v","e">>, <<"h","a","v","i","n","g">>, <<"h","e">>, <<"h","e","r">>,
    <<"h","e","r","e">>, <<"h","e","r","s">>, <<"h","i","m">>, <<"h","i","s">>,
    <<"h","o","w">>, <<"i">>, <<"i","f">>, <<"i","n">>, <<"i","n","t","o">>, <<"i","s">>,
    <<"i","t">>, <<"i","t","s">>, <<"i","t","s","e","l","f">>, <<"m","i","n","e">>,
    <<"m","o","r","e">>, <<"m","o","s","t">>, <<"m","y">>, <<"m","y","s","e","l","f">>,
    <<"n","o">>, <<"n","o","r">>, <<"n","o","t">>, <<"o","f">>, <<"o","n">>,
    <<"o","n","l","y">>, <<"o","t","h","e","r">>, <<"o","u","r">>,
    <<"o","u","r","s","e","l","v","e","s">>, <<"o","u","t">>, <<"o","v","e","r">>,
    <<"o","w","n">>, <<"s","a","m","e">>, <<"s","h","e">>, <<"s","h","o","u","l","d">>,
    <<"s","o">>, <<"s","o","m","e">>, <<"s","u","c","h">>, <<"t","h","a","n">>,
    <<"t","h","a","t">>, <<"t","h","e">>, <<"t","h","e","i","r">>, <<"t","h","e","i","r","s">>,
    <<"t","h","e","m">>, <<"t","h","e","m","s","e","l","v","e","s">>, <<"t","h","e","n">>,
    <<"t","h","e","r","e">>, <<"t","h","e","s","e">>, <<"t","h","e","y">>, <<"t","h","i","s">>,
    <<"t","h","o","s","e">>, <<"t","h","r","o","u","g","h">>, <<"t","o">>, <<"t","o","o">>,
    <<"u","n","d","e","r">>, <<"u","n","t","i","l">>, <<"u","p">>, <<"u","s">>,
    <<"v","e","r","y">>, <<"w","a","s">>, <<"w","e">>, <<"w","e","r","e">>,
    <<"w","h","a","t">>, <<"w","h","e","n">>, <<"w","h","e","r","e">>, <<"w","h","i","c","h">>,
    <<"w","h","o">>, <<"w","h","o","m">>, <<"w","h","y">>, <<"w","i","l","l">>,
    <<"w","i","t","h">>, <<"w","o","u","l","d">>, <<"y","o","u">>, <<"y","o","u","r">>,
    <<"y","o","u","r","s">>, <<"y","o","u","r","s","e","l","f">>
    }

(***************************************************************************)
(* clean_tokens                                                            *)
(***************************************************************************)
\* re.sub(r"[^A-Za-z0-9\s']", " ", text)
ReSubNonWord(s) == [j \in 1..Len(s) |-> IF s[j] \in KeptChars THEN s[j] ELSE " "]

\* the elements of a finite set of integers, in increasing order
SortedSeq(S) ==
    [j \in 1..Cardinality(S) |-> CHOOSE x \in S : Cardinality({y \in S : y < x}) = j - 1]

\* the last index of the run of characters of `chars` (or, with inside
\* FALSE, of characters not in `chars`) that starts at j
RunEnd(s, j, chars, inside) ==
    CHOOSE h \in j..Len(s) :
        /\ \A g \in j..h : (s[g] \in chars) = inside
        /\ h = Len(s) \/ (s[h + 1] \in chars) # inside

\* str.split(): the maximal runs of non-whitespace characters, in order
StrSplit(s) ==
    LET starts == {j \in 1..Len(s) :
                      s[j] \notin Whitespace /\ (j = 1 \/ s[j - 1] \in Whitespace)}
        from == SortedSeq(starts)
    IN  [w \in 1..Len(from) |-> SubSeq(s, from[w], RunEnd(s, from[w], Whitespace, FALSE))]

\* str.strip(chars): drop the leading and trailing characters that are in chars
StripChars(s, chars) ==
    LET keep == {j \in 1..Len(s) : s[j] \notin chars}
    IN  IF keep = {}
        THEN <<>>
        ELSE LET lo == CHOOSE j \in keep : \A h \in keep : j <= h
                 hi == CHOOSE j \in keep : \A h \in keep : j >= h
             IN  SubSeq(s, lo, hi)

\* str.isdigit()
IsDigitStr(w) == w # <<>> /\ \A j \in 1..Len(w) : w[j] \in Digits

\* w.lower().strip("'")
NormalizeWord(w) == StripChars(LowerStr(w), {Apostrophe})

KeepWord_NoStopwordTest(w) == w # <<>> /\ ~(w # <<>> /\ \A j \in 1..Len(w) : w[j] \in Digits)

KeepWord_NoDigitTest(w) == w # <<>> /\ w \notin STOPWORDS

\* w and w not in STOPWORDS and not w.isdigit()
KeepWord(w) == w # <<>> /\ w \notin STOPWORDS /\ ~IsDigitStr(w)

RECURSIVE FilterWords(_)
FilterWords(ws) ==
    IF ws = <<>> THEN <<>>
    ELSE (IF KeepWord(Head(ws)) THEN <<Head(ws)>> ELSE <<>>) \o FilterWords(Tail(ws))

clean_tokens(s) ==
    LET split == StrSplit(ReSubNonWord(s))
        words == [j \in 1..Len(split) |-> NormalizeWord(split[j])]
    IN  FilterWords(words)

(***************************************************************************)
(* keyword_top_n                                                           *)
(***************************************************************************)
\* Counter(...)[t]: the number of occurrences of t (0 when absent)
Count(t, toks) == Cardinality({j \in 1..Len(toks) : toks[j] = t})

\* the keys of Counter(toks), which keeps them in order of first insertion
RECURSIVE CounterKeys(_, _)
CounterKeys(toks, seen) ==
    IF toks = <<>> THEN <<>>
    ELSE IF Head(toks) \in seen
         THEN CounterKeys(Tail(toks), seen)
         ELSE <<Head(toks)>> \o CounterKeys(Tail(toks), seen \cup {Head(toks)})

\* Counter(toks).items()
CounterItems(toks) ==
    LET keys == CounterKeys(toks, {})
    IN  [j \in 1..Len(keys) |-> <<keys[j], Count(keys[j], toks)>>]

RECURSIVE InsertByCount_Unstable(_, _)
InsertByCount_Unstable(sorted, x) ==
    IF sorted = <<>> THEN <<x>>
    ELSE IF Head(sorted)[2] > x[2]
         THEN <<Head(sorted)>> \o InsertByCount_Unstable(Tail(sorted), x)
         ELSE <<x>> \o sorted

\* one step of a stable descending sort: x goes after every element that is
\* not smaller than it
RECURSIVE InsertByCount(_, _)
InsertByCount(sorted, x) ==
    IF sorted = <<>> THEN <<x>>
    ELSE IF Head(sorted)[2] >= x[2]
         THEN <<Head(sorted)>> \o InsertByCount(Tail(sorted), x)
         ELSE <<x>> \o sorted

RECURSIVE SortByCountDesc(_, _)
SortByCountDesc(items, acc) ==
    IF items = <<>> THEN acc
    ELSE SortByCountDesc(Tail(items), InsertByCount(acc, Head(items)))

\* seq[:m] for m >= 0
Take(seq, m) == SubSeq(seq, 1, IF m < Len(seq) THEN m ELSE Len(seq))

\* Counter.most_common(m) == sorted(items, key=count, reverse=True)[:m]
most_common(toks, m) == Take(SortByCountDesc(CounterItems(toks), <<>>), m)

keyword_top_n(s, m) == most_common(clean_tokens(s), m)

(***************************************************************************)
(* split_sentences                                                         *)
(***************************************************************************)
ReSplit_NoLookBehind(s) ==
    LET starts == {j \in 1..Len(s) :
                      s[j] \in Whitespace /\ (j = 1 \/ s[j - 1] \notin Whitespace)}
        from == SortedSeq(starts)
        m == Len(from)
        begin(p) == IF p = 1 THEN 1 ELSE RunEnd(s, from[p - 1], Whitespace, TRUE) + 1
        end(p) == IF p = m + 1 THEN Len(s) ELSE from[p] - 1
    IN  [p \in 1..(m + 1) |-> SubSeq(s, begin(p), end(p))]

\* re.split(r'(?<=[\.\!\?])\s+', s): a match starts at a whitespace character
\* directly preceded by a terminator and, \s+ being greedy, takes the whole
\* run of whitespace; the parts are what lies between the matches (the part
\* after the last match may be empty)
ReSplit(s) ==
    LET starts == {j \in 2..Len(s) : s[j] \in Whitespace /\ s[j - 1] \in Terminators}
        from == SortedSeq(starts)
        m == Len(from)
        begin(p) == IF p = 1 THEN 1 ELSE RunEnd(s, from[p - 1], Whitespace, TRUE) + 1
        end(p) == IF p = m + 1 THEN Len(s) ELSE from[p] - 1
    IN  [p \in 1..(m + 1) |-> SubSeq(s, begin(p), end(p))]

\* [p.strip() for p in parts if p.strip()]
RECURSIVE StripNonEmpty(_)
StripNonEmpty(parts) ==
    IF parts = <<>> THEN <<>>
    ELSE LET p == StripChars(Head(parts), Whitespace)
         IN  (IF p # <<>> THEN <<p>> ELSE <<>>) \o StripNonEmpty(Tail(parts))

split_sentences(s) == StripNonEmpty(ReSplit(s))

(***************************************************************************)
(* score_sentences                                                         *)
(* A score sum / cnt ** 0.8 is kept as the pair (sum, cnt); two scores are *)
(* compared exactly: a / n^0.8 > b / m^0.8  iff  a^5 * m^4 > b^5 * n^4.    *)
(***************************************************************************)
\* " ".join(ss)
RECURSIVE JoinSpace(_)
JoinSpace(ss) ==
    IF ss = <<>> THEN <<>>
    ELSE IF Len(ss) = 1 THEN Head(ss)
         ELSE Head(ss) \o <<" ">> \o JoinSpace(Tail(ss))

\* sum(freqs[t] for t in toks)
RECURSIVE SumFreqs(_, _)
SumFreqs(toks, all_words) ==
    IF toks = <<>> THEN 0
    ELSE Count(Head(toks), all_words) + SumFreqs(Tail(toks), all_words)

ScoreGreater(x, y) == (x.sum ^ 5) * (y.cnt ^ 4) > (y.sum ^ 5) * (x.cnt ^ 4)

ScoreEqual(x, y) == (x.sum ^ 5) * (y.cnt ^ 4) = (y.sum ^ 5) * (x.cnt ^ 4)

\* the for loop: one (s, score) per sentence that has tokens
RECURSIVE ScoreEach(_, _)
ScoreEach(ss, all_words) ==
    IF ss = <<>> THEN <<>>
    ELSE LET toks == clean_tokens(Head(ss))
         IN  (IF toks = <<>>
              THEN <<>>
              ELSE <<[s |-> Head(ss), sum |-> SumFreqs(toks, all_words),
                      cnt |-> Len(toks)]>>)
             \o ScoreEach(Tail(ss), all_words)

RECURSIVE InsertByScore_Unstable(_, _)
InsertByScore_Unstable(sorted, x) ==
    IF sorted = <<>> THEN <<x>>
    ELSE IF ScoreGreater(Head(sorted), x)
         THEN <<Head(sorted)>> \o InsertByScore_Unstable(Tail(sorted), x)
         ELSE <<x>> \o sorted

\* scored.sort(key=score, reverse=True): stable, so x goes after every
\* element whose score is not smaller
RECURSIVE InsertByScore(_, _)
InsertByScore(sorted, x) ==
    IF sorted = <<>> THEN <<x>>
    ELSE IF ScoreGreater(x, Head(sorted))
         THEN <<x>> \o sorted
         ELSE <<Head(sorted)>> \o InsertByScore(Tail(sorted), x)

RECURSIVE SortByScoreDesc(_, _)
SortByScoreDesc(scored, acc) ==
    IF scored = <<>> THEN acc
    ELSE SortByScoreDesc(Tail(scored), InsertByScore(acc, Head(scored)))

score_sentences(ss) ==
    LET all_words == clean_tokens(JoinSpace(ss))
    IN  IF all_words = <<>>
        THEN <<>>
        ELSE SortByScoreDesc(ScoreEach(ss, all_words), <<>>)

(***************************************************************************)
(* extract_summary_bullets                                                 *)
(***************************************************************************)
\* the bullet marker: the character U+2022, written "BULLET", and a space
BulletMarker == <<"BULLET", " ">>

\* "\u2022 " + s
Bullet(s) == BulletMarker \o s

Signature_NoLower(s) == SubSeq(s, 1, IF SigLen < Len(s) THEN SigLen ELSE Len(s))

\* s[:40].lower()
Signature(s) == LowerStr(Take(s, SigLen))

RECURSIVE SelectFrom_ExclusiveMin(_, _, _, _, _, _, _)
SelectFrom_ExclusiveMin(ranked, j, bullets, used, k_, min_len, max_len) ==
    IF j > Len(ranked) THEN bullets
    ELSE LET s == ranked[j].s
             sig == LowerStr(SubSeq(s, 1, IF SigLen < Len(s) THEN SigLen ELSE Len(s)))
         IN  IF Len(s) <= min_len \/ Len(s) > max_len \/ sig \in used
             THEN SelectFrom_ExclusiveMin(ranked, j + 1, bullets, used, k_, min_len, max_len)
             ELSE IF Len(bullets) + 1 >= k_
                  THEN Append(bullets, <<"BULLET", " ">> \o s)
                  ELSE SelectFrom_ExclusiveMin(ranked, j + 1,
                                               Append(bullets, <<"BULLET", " ">> \o s),
                                               used \cup {sig}, k_, min_len, max_len)

\* the for loop over ranked, from its j-th element, with its break
RECURSIVE SelectFrom(_, _, _, _, _, _, _)
SelectFrom(ranked, j, bullets, used, k_, min_len, max_len) ==
    IF j > Len(ranked) THEN bullets
    ELSE LET s == ranked[j].s
             sig == Signature(s)
         IN  IF Len(s) < min_len \/ Len(s) > max_len
             THEN SelectFrom(ranked, j + 1, bullets, used, k_, min_len, max_len)
             ELSE IF sig \in used
                  THEN SelectFrom(ranked, j + 1, bullets, used, k_, min_len, max_len)
                  ELSE IF Len(bullets) + 1 >= k_
                       THEN Append(bullets, Bullet(s))
                       ELSE SelectFrom(ranked, j + 1, Append(bullets, Bullet(s)),
                                       used \cup {sig}, k_, min_len, max_len)

Fallback_NoSlice(bullets, sents, k_) ==
    IF bullets = <<>> /\ sents # <<>>
    THEN [j \in 1..Len(sents) |-> <<"BULLET", " ">> \o sents[j]]
    ELSE bullets

\* if not bullets and sents: bullets = [marker + s for s in sents[:k]]
Fallback(bullets, sents, k_) ==
    IF bullets = <<>> /\ sents # <<>>
    THEN LET first == Take(sents, k_)
         IN  [j \in 1..Len(first) |-> Bullet(first[j])]
    ELSE bullets

\* the function from its line "bullets, used = [], set()" on, given the
\* locals sents and ranked
extract_summary_bullets(sents, ranked, k_, min_len, max_len) ==
    Fallback(SelectFrom(ranked, 1, <<>>, {}, k_, min_len, max_len), sents, k_)

(***************************************************************************)
(* Inputs.                                                                 *)
(***************************************************************************)
\* every concatenation of at most m pieces
RECURSIVE Concats(_, _)
Concats(pieces, m) ==
    IF m = 0 THEN {<<>>}
    ELSE LET shorter == Concats(pieces, m - 1)
         IN  shorter \cup {t \o p : t \in shorter, p \in pieces}

\* every sequence of at most m elements of S
SeqsUpTo(S, m) == UNION {[1..j -> S] : j \in 0..m}

Rep(c, m) == [j \in 1..m |-> c]

\* characters the texts given to clean_tokens are made of: an upper-case
\* letter whose lower case is a stopword, a letter, a digit, the apostrophe,
\* a space and a character outside [A-Za-z0-9\s']
TokenAlphabet == {"A", "n", "7", "'", " ", ","}

\* characters the texts given to split_sentences are made of
SentenceAlphabet == {"b", ".", "?", " ", "\n"}

\* the sentence lists given to score_sentences
ScorePalette == {
    <<"b", ".">>,
    <<"B", "!">>,
    <<"b", " ", "n", ".">>,
    <<"n">>,
    <<"A", " ", "7", "?">>,
    <<" ", "n", " ", "b", ",", "b">>
    }

\* the pieces the texts given to the whole pipeline are assembled from:
\* short sentences equal up to case, a sentence with no token, a word that
\* runs into the next piece, and two sentences longer than 40 characters
\* that agree on their first 40 characters up to case
TextPieces == {
    <<"b", ".", " ">>,
    <<"B", ".", " ">>,
    <<"A", " ", "7", "?", " ">>,
    <<"n", " ">>,
    Rep("b", SigLen) \o <<" ", "n", ".", " ">>,
    Rep("B", SigLen) \o <<"!", "\n">>
    }

\* texts of whitespace only
BlankTexts == {<<" ">>, <<"\n", " ", "\t">>}

\* the (min_len, max_len) given: the small ones and the defaults
LenParams ==
    {p \in ((0..MaxLenParam) \cup {DefaultMinLen}) \X ((0..MaxLenParam) \cup {DefaultMaxLen}) :
        p[1] <= p[2]}

NoCall == [fn |-> "none"]

NoFetch ==
    /\ env = <<>>
    /\ pc = "idle"
    /\ it = 0
    /\ outcome = <<>>

NoText ==
    /\ text = <<>>
    /\ sentences = <<>>
    /\ call = NoCall
    /\ ret = <<>>
    /\ locals = <<>>

(***************************************************************************)
(* The helpers, each called once on the input drawn in Init.               *)
(***************************************************************************)
CleanTokens ==
    /\ call = NoCall
    /\ call' = [fn |-> "clean_tokens"]
    /\ ret' = clean_tokens(text)
    /\ UNCHANGED <<text, sentences, locals, env, pc, it, outcome>>

KeywordTopN ==
    /\ call = NoCall
    /\ \E m \in 0..MaxN :
        /\ call' = [fn |-> "keyword_top_n", n |-> m]
        /\ ret' = keyword_top_n(text, m)
    /\ UNCHANGED <<text, sentences, locals, env, pc, it, outcome>>

SplitSentences ==
    /\ call = NoCall
    /\ call' = [fn |-> "split_sentences"]
    /\ ret' = split_sentences(text)
    /\ UNCHANGED <<text, sentences, locals, env, pc, it, outcome>>

ScoreSentences ==
    /\ call = NoCall
    /\ call' = [fn |-> "score_sentences"]
    /\ ret' = score_sentences(sentences)
    /\ UNCHANGED <<text, sentences, locals, env, pc, it, outcome>>

\* score_sentences(split_sentences(text)), as extract_summary_bullets calls them
SplitAndScore ==
    /\ call = NoCall
    /\ call' = [fn |-> "split_score"]
    /\ ret' = score_sentences(split_sentences(text))
    /\ UNCHANGED <<text, sentences, locals, env, pc, it, outcome>>

ExtractSummaryBullets ==
    /\ call = NoCall
    /\ \E sents \in {split_sentences(text)} :
        \E ranked \in {score_sentences(sents)} :
            /\ locals' = [sents |-> sents, ranked |-> ranked]
            /\ \E k_ \in 0..MaxK, p \in LenParams :
                /\ call' = [fn |-> "extract_summary_bullets", k |-> k_,
                            min_len |-> p[1], max_len |-> p[2]]
                /\ ret' = extract_summary_bullets(sents, ranked, k_, p[1], p[2])
    /\ UNCHANGED <<text, sentences, env, pc, it, outcome>>

\* the whole pipeline on assembled texts
Init ==
    /\ text \in Concats(TextPieces, MaxPieces) \cup BlankTexts
    /\ sentences = <<>>
    /\ call = NoCall
    /\ ret = <<>>
    /\ locals = <<>>
    /\ NoFetch

Next ==
    \/ CleanTokens
    \/ KeywordTopN
    \/ SplitAndScore
    \/ ExtractSummaryBullets

Spec == Init /\ [][Next]_vars

\* clean_tokens on every short text over TokenAlphabet
InitTokens ==
    /\ text \in SeqsUpTo(TokenAlphabet, MaxChars)
    /\ sentences = <<>>
    /\ call = NoCall
    /\ ret = <<>>
    /\ locals = <<>>
    /\ NoFetch

NextTokens == CleanTokens

SpecTokens == InitTokens /\ [][NextTokens]_vars

\* split_sentences on every short text over SentenceAlphabet
InitSentences ==
    /\ text \in SeqsUpTo(SentenceAlphabet, MaxChars)
    /\ sentences = <<>>
    /\ call = NoCall
    /\ ret = <<>>
    /\ locals = <<>>
    /\ NoFetch

NextSentences == SplitSentences

SpecSentences == InitSentences /\ [][NextSentences]_vars

\* score_sentences on every short list over ScorePalette
InitScore ==
    /\ text = <<>>
    /\ sentences \in SeqsUpTo(ScorePalette, MaxPieces)
    /\ call = NoCall
    /\ ret = <<>>
    /\ locals = <<>>
    /\ NoFetch

NextScore == ScoreSentences

SpecScore == InitScore /\ [][NextScore]_vars

(***************************************************************************)
(* pick_and_fetch                                                          *)
(* env says what the transcript API does during the call:                  *)
(*   language_priority  the argument (None and [] are both false)          *)
(*   list1, list2       "ok" or "raise": the first and the second          *)
(*                      ytt_api.list(video_id)                             *)
(*   found              find_transcript(language_priority): 0 when it      *)
(*                      raises, else the index in tlist of the transcript  *)
(*   direct_fetch       "ok" or "raise": tr.fetch() of the found one       *)
(*   tlist              the listed transcripts, each saying what           *)
(*                      translating it to English does: "not_translatable",*)
(*                      "translate_raises", "fetch_raises" or "ok"         *)
(*   first_fetch        "ok" or "raise": first.fetch()                     *)
(***************************************************************************)
Outcomes == {"ok", "raise"}

TranslateKinds == {"not_translatable", "translate_raises", "fetch_raises", "ok"}

Envs ==
    UNION {
        [language_priority : {<<>>, <<"en">>},
         list1 : Outcomes,
         found : 0..m,
         direct_fetch : Outcomes,
         list2 : Outcomes,
         tlist : [1..m -> TranslateKinds],
         first_fetch : Outcomes] : m \in 0..MaxTranscripts}

Returned(source, picked) == [kind |-> "return", source |-> source, picked |-> picked]

Raised == [kind |-> "raise", source |-> "", picked |-> 0]

InitFetch ==
    /\ NoText
    /\ env \in Envs
    /\ pc = "direct"
    /\ it = 0
    /\ outcome = <<>>

\* if language_priority: is false
DirectSkipped ==
    /\ pc = "direct"
    /\ env.language_priority = <<>>
    /\ pc' = "list"
    /\ UNCHANGED <<text, sentences, call, ret, locals, env, it, outcome>>

\* list, find_transcript and fetch all succeed: return source "direct"
DirectReturns ==
    /\ pc = "direct"
    /\ env.language_priority # <<>>
    /\ env.list1 = "ok" /\ env.found > 0 /\ env.direct_fetch = "ok"
    /\ outcome' = Returned("direct", env.found)
    /\ pc' = "done"
    /\ UNCHANGED <<text, sentences, call, ret, locals, env, it>>

\* one of them raises: except Exception: pass
DirectFails ==
    /\ pc = "direct"
    /\ env.language_priority # <<>>
    /\ env.list1 = "raise" \/ env.found = 0 \/ env.direct_fetch = "raise"
    /\ pc' = "list"
    /\ UNCHANGED <<text, sentences, call, ret, locals, env, it, outcome>>

\* tlist = ytt_api.list(video_id), outside any try
ListTranscripts ==
    /\ pc = "list"
    /\ \/ /\ env.list2 = "ok"
          /\ pc' = "loop"
          /\ it' = 1
          /\ UNCHANGED outcome
       \/ /\ env.list2 = "raise"
          /\ pc' = "done"
          /\ outcome' = Raised
          /\ UNCHANGED it
    /\ UNCHANGED <<text, sentences, call, ret, locals, env>>

\* for tr in tlist: tr is not translatable, next iteration
TranslateSkipped ==
    /\ pc = "loop"
    /\ it <= Len(env.tlist)
    /\ env.tlist[it] = "not_translatable"
    /\ it' = it + 1
    /\ UNCHANGED <<text, sentences, call, ret, locals, env, pc, outcome>>

TranslateFails_Propagates ==
    /\ pc = "loop"
    /\ it <= Len(env.tlist)
    /\ env.tlist[it] \in {"translate_raises", "fetch_raises"}
    /\ outcome' = Raised
    /\ pc' = "done"
    /\ UNCHANGED <<text, sentences, call, ret, locals, env, it>>

\* tr.translate("en") or translated.fetch() raises: except Exception: continue
TranslateFails ==
    /\ pc = "loop"
    /\ it <= Len(env.tlist)
    /\ env.tlist[it] \in {"translate_raises", "fetch_raises"}
    /\ it' = it + 1
    /\ UNCHANGED <<text, sentences, call, ret, locals, env, pc, outcome>>

\* both succeed: return source "translated_to_en"
TranslateReturns ==
    /\ pc = "loop"
    /\ it <= Len(env.tlist)
    /\ env.tlist[it] = "ok"
    /\ outcome' = Returned("translated_to_en", it)
    /\ pc' = "done"
    /\ UNCHANGED <<text, sentences, call, ret, locals, env, it>>

\* the loop ends without a return
LoopEnds ==
    /\ pc = "loop"
    /\ it > Len(env.tlist)
    /\ pc' = "fallback"
    /\ UNCHANGED <<text, sentences, call, ret, locals, env, it, outcome>>

\* first = next(iter(tlist)); f = first.fetch(), outside any try
FallbackFirst ==
    /\ pc = "fallback"
    /\ \/ /\ env.tlist # <<>> /\ env.first_fetch = "ok"
          /\ outcome' = Returned("fallback_first_available", 1)
       \/ /\ env.tlist = <<>> \/ env.first_fetch = "raise"
          /\ outcome' = Raised
    /\ pc' = "done"
    /\ UNCHANGED <<text, sentences, call, ret, locals, env, it>>

NextFetch ==
    \/ DirectSkipped
    \/ DirectReturns
    \/ DirectFails
    \/ ListTranscripts
    \/ TranslateSkipped
    \/ TranslateFails
    \/ TranslateReturns
    \/ LoopEnds
    \/ FallbackFirst

SpecFetch == InitFetch /\ [][NextFetch]_vars

(***************************************************************************)
(* Properties.                                                             *)
(***************************************************************************)
Min(a, b) == IF a <= b THEN a ELSE b

\* the characters of s that are not whitespace, in order
NonWhitespace(s) == SelectSeq(s, LAMBDA c : c \notin Whitespace)

RECURSIVE Flatten(_)
Flatten(ss) == IF ss = <<>> THEN <<>> ELSE Head(ss) \o Flatten(Tail(ss))

\* the maximal runs of letters, digits and apostrophes of s, as <<lo, hi>>
WordChars == UpperCase \cup LowerCase \cup Digits \cup {Apostrophe}

WordChar(c) == c \in WordChars

WordRuns(s) ==
    LET starts == {j \in 1..Len(s) : WordChar(s[j]) /\ (j = 1 \/ ~WordChar(s[j - 1]))}
        last(lo) == CHOOSE hi \in lo..Len(s) :
                        /\ \A j \in lo..hi : WordChar(s[j])
                        /\ hi = Len(s) \/ ~WordChar(s[hi + 1])
    IN  {<<lo, last(lo)>> : lo \in starts}

\* the run w in lower case, from its first to its last character that is
\* no apostrophe (empty when it has none): a set with exactly one element
Cores(w) ==
    LET inner == {j \in 1..Len(w) : w[j] # Apostrophe}
    IN  IF inner = {}
        THEN {<<>>}
        ELSE {LowerStr(SubSeq(w, a, b)) :
                a \in {j \in inner : \A h \in inner : j <= h},
                b \in {j \in inner : \A h \in inner : j >= h}}

\* a word clean_tokens has to drop: empty, a stopword or all digits
Droppable(t) == t = <<>> \/ t \in STOPWORDS \/ \A h \in 1..Len(t) : t[h] \in Digits

\* C5: clean_tokens(text) holds no empty token, no stopword and no token made
\* only of digits; every token is lower case with no leading or trailing
\* apostrophe; and the tokens are, in text order and with repetitions, the
\* words of the text that are none of these.
C5_CleanTokens ==
    call.fn = "clean_tokens" =>
        /\ \A j \in 1..Len(ret) :
            /\ ret[j] # <<>>
            /\ ret[j] \notin STOPWORDS
            /\ \E h \in 1..Len(ret[j]) : ret[j][h] \notin Digits
            /\ \A h \in 1..Len(ret[j]) : ret[j][h] \notin UpperCase
            /\ ret[j][1] # Apostrophe /\ ret[j][Len(ret[j])] # Apostrophe
        /\ \E pos \in [1..Len(ret) -> WordRuns(text)] :
            /\ \A j \in 1..Len(ret) :
                ret[j] \in Cores(SubSeq(text, pos[j][1], pos[j][2]))
            /\ \A j \in 1..(Len(ret) - 1) : pos[j][2] < pos[j + 1][1]
            /\ \A r \in WordRuns(text) \ {pos[j] : j \in 1..Len(ret)} :
                \A t \in Cores(SubSeq(text, r[1], r[2])) : Droppable(t)

C5_Witness ==
    /\ call.fn = "clean_tokens"
    /\ Len(ret) = 2
    /\ ret[1] = ret[2]
    /\ \E j \in 1..Len(text) : text[j] = "A"

\* the index of the first occurrence of t in toks
FirstIndex(t, toks) ==
    CHOOSE j \in 1..Len(toks) : toks[j] = t /\ \A h \in 1..(j - 1) : toks[h] # t

\* C6: keyword_top_n(text, n) returns min(n, number of distinct tokens) pairs
\* (token, count), each count the number of occurrences of the token in
\* clean_tokens(text), sorted by count descending, equal counts in order of
\* first occurrence, no omitted token with a strictly higher count than a
\* returned one (so n = 0 or a text without tokens gives the empty sequence).
C6_KeywordTopN ==
    call.fn = "keyword_top_n" =>
        LET toks == clean_tokens(text)
            distinct == {toks[j] : j \in 1..Len(toks)}
            occ(t) == Cardinality({j \in 1..Len(toks) : toks[j] = t})
        IN  /\ Len(ret) = Min(call.n, Cardinality(distinct))
            /\ \A j \in 1..Len(ret) :
                /\ ret[j][1] \in distinct
                /\ ret[j][2] = occ(ret[j][1])
            /\ \A i, j \in 1..Len(ret) :
                i < j =>
                    /\ ret[i][1] # ret[j][1]
                    /\ \/ ret[i][2] > ret[j][2]
                       \/ /\ ret[i][2] = ret[j][2]
                          /\ FirstIndex(ret[i][1], toks) < FirstIndex(ret[j][1], toks)
            /\ \A t \in distinct \ {ret[j][1] : j \in 1..Len(ret)} :
                \A j \in 1..Len(ret) : occ(t) <= ret[j][2]
            /\ (call.n = 0 \/ text = <<>>) => ret = <<>>

C6_Witness ==
    /\ call.fn = "keyword_top_n"
    /\ call.n = 2
    /\ Len(ret) = 2
    /\ ret[1][2] > ret[2][2]
    /\ LET toks == clean_tokens(text)
       IN  /\ FirstIndex(ret[1][1], toks) > FirstIndex(ret[2][1], toks)
           /\ \E j \in 1..Len(toks) : toks[j] \notin {ret[1][1], ret[2][1]}

\* C7: split_sentences(text) returns sentences none of which is empty or
\* starts or ends with whitespace; concatenated, and whitespace apart, they
\* are the text; every sentence but the last ends with '.', '!' or '?' (a
\* split happens only directly after a terminator, which stays on the
\* sentence before it) and no sentence holds a terminator followed by
\* whitespace.
C7_SplitSentences ==
    call.fn = "split_sentences" =>
        /\ \A j \in 1..Len(ret) :
            /\ ret[j] # <<>>
            /\ ret[j][1] \notin Whitespace
            /\ ret[j][Len(ret[j])] \notin Whitespace
        /\ NonWhitespace(Flatten(ret)) = NonWhitespace(text)
        /\ \A j \in 1..(Len(ret) - 1) : ret[j][Len(ret[j])] \in Terminators
        /\ \A j \in 1..Len(ret) :
            \A h \in 1..(Len(ret[j]) - 1) :
                ~(ret[j][h] \in Terminators /\ ret[j][h + 1] \in Whitespace)

C7_Witness ==
    /\ call.fn = "split_sentences"
    /\ Len(ret) = 2
    /\ \E h \in 1..(Len(ret[1]) - 1) : ret[1][h] \in Terminators
    /\ Len(NonWhitespace(text)) < Len(text)

NoToken(s) ==
    \A r \in WordRuns(s) : \A t \in Cores(SubSeq(s, r[1], r[2])) : Droppable(t)

\* the sentence a bullet was made from
Body(bullet) == SubSeq(bullet, 3, Len(bullet))

\* the first 40 characters, in lower case
PrefixLower(s) == [j \in 1..Min(Len(s), SigLen) |-> Lower(s[j])]

InRange(s) == call.min_len <= Len(s) /\ Len(s) <= call.max_len

Extracted == call.fn = "extract_summary_bullets"

\* C1: extract_summary_bullets(text, k, min_len, max_len) returns at most k
\* bullets (k = 0 returns none), on the selection path and on the fallback path.
C1_AtMostK == Extracted => Len(ret) <= call.k

\* C2 as claimed: no list extract_summary_bullets returns holds two bullets
\* whose sentences have the same lower-cased first 40 characters.
C2_NoSharedSignature ==
    Extracted =>
        \A i, j \in 1..Len(ret) :
            i # j => PrefixLower(Body(ret[i])) # PrefixLower(Body(ret[j]))

\* C2 as amended: when some scored sentence has a length within
\* [min_len, max_len], so that the list is built by the selection loop, no
\* two bullets have sentences with the same lower-cased first 40 characters.
C2_SelectedNoSharedSignature ==
    (Extracted /\ \E i \in 1..Len(locals.ranked) : InRange(locals.ranked[i].s)) =>
        \A i, j \in 1..Len(ret) :
            i # j => PrefixLower(Body(ret[i])) # PrefixLower(Body(ret[j]))

C2_Witness ==
    /\ Extracted
    /\ Len(ret) = 2
    /\ \E i, j \in 1..Len(locals.ranked) :
        /\ i # j
        /\ InRange(locals.ranked[i].s) /\ InRange(locals.ranked[j].s)
        /\ Len(locals.ranked[i].s) > SigLen
        /\ locals.ranked[i].s # locals.ranked[j].s
        /\ PrefixLower(locals.ranked[i].s) = PrefixLower(locals.ranked[j].s)

\* C3 as claimed: on a text without tokens (empty, only whitespace, or only
\* stopwords, numbers and punctuation) clean_tokens, keyword_top_n,
\* split_sentences + score_sentences and extract_summary_bullets each return
\* the empty sequence.
C3_NoTokenGivesEmpty == (call.fn # "none" /\ NoToken(text)) => ret = <<>>

\* C3 as amended: on a text without tokens clean_tokens, keyword_top_n and
\* split_sentences + score_sentences return the empty sequence, and
\* extract_summary_bullets returns one bullet for each of the first
\* min(k, number of sentences) sentences: the empty sequence only when k = 0
\* or the text has no sentence (it is empty or only whitespace).
C3_NoTokenGivesEmptyOrFallback ==
    (call.fn # "none" /\ NoToken(text)) =>
        /\ ~Extracted => ret = <<>>
        /\ Extracted => Len(ret) = Min(call.k, Len(locals.sents))
        /\ NonWhitespace(text) = <<>> => ret = <<>>

C3_Witness ==
    /\ Extracted
    /\ NoToken(text)
    /\ NonWhitespace(text) # <<>>
    /\ call.k = 2
    /\ Len(ret) = 2

\* C4: when no scored sentence has a length within [min_len, max_len] (or no
\* sentence was scored), extract_summary_bullets returns the first
\* min(k, number of sentences) sentences of split_sentences(text), in text
\* order, each behind the bullet marker, with no length or duplicate
\* filtering; with no sentence it returns the empty sequence.
C4_Fallback ==
    (Extracted /\ \A i \in 1..Len(locals.ranked) : ~InRange(locals.ranked[i].s)) =>
        /\ Len(ret) = Min(call.k, Len(locals.sents))
        /\ \A j \in 1..Len(ret) : ret[j] = <<"BULLET", " ">> \o locals.sents[j]
        /\ locals.sents = <<>> => ret = <<>>

C4_Witness ==
    /\ Extracted
    /\ \A i \in 1..Len(locals.ranked) : ~InRange(locals.ranked[i].s)
    /\ locals.ranked # <<>>
    /\ Len(locals.sents) = 3
    /\ call.k = 2
    /\ Len(ret) = 2
    /\ PrefixLower(Body(ret[1])) = PrefixLower(Body(ret[2]))

\* ret is the selection of the entries I of ranked, in ranked order
SelectionOf(I) ==
    LET ranked == locals.ranked
        idx == SortedSeq(I)
    IN  /\ Len(ret) = Len(idx)
        /\ \A j \in 1..Len(idx) : ret[j] = <<"BULLET", " ">> \o ranked[idx[j]].s
        /\ \A i \in I :
            /\ InRange(ranked[i].s)
            /\ ranked[i].cnt >= 1
            /\ \E j \in 1..Len(locals.sents) : locals.sents[j] = ranked[i].s
            /\ \A j \in I : j < i =>
                /\ PrefixLower(ranked[j].s) # PrefixLower(ranked[i].s)
                /\ (ranked[j].sum ^ 5) * (ranked[i].cnt ^ 4)
                      >= (ranked[i].sum ^ 5) * (ranked[j].cnt ^ 4)
        /\ Cardinality(I) <= call.k
        /\ \A i \in (1..Len(ranked)) \ I :
            \/ ~InRange(ranked[i].s)
            \/ \E j \in I : j < i /\ PrefixLower(ranked[j].s) = PrefixLower(ranked[i].s)
            \/ Cardinality(I) = call.k /\ \A j \in I : j < i

\* C9: with k >= 1 and a scored sentence whose length is within
\* [min_len, max_len], extract_summary_bullets returns the greedy selection
\* over the score-descending list: every bullet is the marker and a sentence
\* of split_sentences(text) that has a token and a length within the bounds
\* (both accepted), in non-increasing score order; a sentence is left out
\* only for its length, for repeating the signature of an accepted
\* higher-ranked one, or for coming after the k-th accepted one.
C9_GreedySelection ==
    (/\ Extracted
     /\ call.k >= 1
     /\ \E i \in 1..Len(locals.ranked) : InRange(locals.ranked[i].s)) =>
        \E I \in SUBSET (1..Len(locals.ranked)) : I # {} /\ SelectionOf(I)

C9_Witness ==
    /\ Extracted
    /\ call.k = 2
    /\ Len(ret) = 1
    /\ Len(locals.ranked) = 3
    /\ Len(locals.ranked[1].s) = call.min_len
    /\ InRange(locals.ranked[2].s)
    /\ ~InRange(locals.ranked[3].s)

\* the direct step was taken and succeeded
DirectWorks ==
    /\ env.language_priority # <<>>
    /\ env.list1 = "ok"
    /\ env.found > 0
    /\ env.direct_fetch = "ok"

\* the listed transcripts that translate to English and fetch
Translating == {j \in 1..Len(env.tlist) : env.tlist[j] = "ok"}

\* C10: pick_and_fetch returns source "direct" exactly when language_priority
\* is not empty and finding and fetching in those languages succeeds;
\* otherwise, unless the listing raises, "translated_to_en" for the first
\* listed transcript whose translation and fetch succeed; otherwise
\* "fallback_first_available" for the first listed transcript, unless there
\* is none or its fetch raises.  A failure of the direct step or of one
\* translation never ends the call; a failure of the second listing or of
\* the fallback fetch does.  The later sources are only tried after the
\* earlier ones gave nothing.
C10_SourceOrder ==
    /\ pc \in {"list", "loop", "fallback"} => ~DirectWorks /\ outcome = <<>>
    /\ pc = "loop" => \A j \in Translating : j >= it
    /\ pc = "fallback" => Translating = {}
    /\ pc = "done" =>
        IF DirectWorks
        THEN outcome = Returned("direct", env.found)
        ELSE IF env.list2 = "raise"
        THEN outcome.kind = "raise"
        ELSE IF Translating # {}
        THEN /\ outcome.kind = "return"
             /\ outcome.source = "translated_to_en"
             /\ outcome.picked \in Translating
             /\ \A j \in Translating : outcome.picked <= j
        ELSE IF env.tlist # <<>> /\ env.first_fetch = "ok"
        THEN outcome = Returned("fallback_first_available", 1)
        ELSE outcome.kind = "raise"

C10_Witness ==
    /\ pc = "done"
    /\ env.language_priority # <<>>
    /\ env.list1 = "ok" /\ env.found > 0 /\ env.direct_fetch = "raise"
    /\ env.tlist[1] = "translate_raises"
    /\ outcome.kind = "return"
    /\ outcome.source = "translated_to_en"
    /\ outcome.picked = 2
====
